---- MODULE Spec2Model ----
(***************************************************************************)
(* Model of tiny-async: the hook returned by createHook (lib/main.ts) on   *)
(* top of the memoizer pMemoize (lib/pMemoize.ts, the version that exports *)
(* PromiseWithIsCached and withOpts).                                      *)
(*                                                                         *)
(* Every synchronous block of the code is one action: a run() call, a      *)
(* cancel() call, each continuation of the memoized async function after   *)
(* an await, each promise reaction (then / catch / finally callback), a    *)
(* settlement of the task function's promise, and a React re-render.       *)
(***************************************************************************)
EXTENDS Integers, FiniteSets, Sequences, TLC

\* ---------------------------------------------------------------- bounds
\* Number of run() calls in a behaviour (executions are numbered in call order).
MaxExec == 3
\* Number of executions that are in progress at the same time.
MaxAlive == 2
\* Number of mounted instances of the hook (they share cache and promiseCache).
NumHooks == 1

Execs == 1..MaxExec
Hooks == 1..NumHooks
Keys  == {"k1", "k2"}

\* ---------------------------------------------------------------- values
\* `undefined` data; the value a task invocation resolves with is the number
\* of the memoized promise that invoked it, so every invocation is distinguishable.
Undefined == 0
\* `undefined` error, the error a task rejects with, an AbortSignal's reason.
NoError == <<"undefined", 0>>
TaskError(m) == <<"task", m>>
AbortReason(e) == <<"abort", e>>

\* ---------------------------------------------------------------- run options
NoOpts == [n \in {} |-> FALSE]
defaultOptions ==
  [cancelOnUnmount |-> FALSE, keepPreviousData |-> FALSE, ignoreCache |-> FALSE]
\* Object spread {...a, ...b}
Spread(a, b) ==
  [n \in (DOMAIN a) \cup (DOMAIN b) |-> IF n \in DOMAIN b THEN b[n] ELSE a[n]]
\* MergeOpts with the hook's options spread last.
MergeOptsHookLast(hookOpts, runOpts) ==
  Spread(Spread(defaultOptions, runOpts), hookOpts)
\* opts = {...defaultOptions, ...hookOptions, ...runOptions}
MergeOpts(hookOpts, runOpts) == Spread(Spread(defaultOptions, hookOpts), runOpts)

HookOptionChoices == {NoOpts, [keepPreviousData |-> TRUE]}
RunOptionChoices ==
  {NoOpts, [ignoreCache |-> TRUE], [keepPreviousData |-> FALSE]}

VARIABLES
  abortable,      \* createHook option `abortable`
  cacheOn,        \* FALSE when createHook was given cache: false
  hookOptions,    \* per hook instance: the options passed to the hook
  cache,          \* the cache store: key -> value, Undefined when absent
  promiseCache,   \* key -> number of the registered memoized promise, 0 when none
  memo,           \* the promises created by createMemoizedRun
  exec,           \* the closures and user promises created by run()
  nExec,          \* number of run() calls so far
  now,            \* Date.now()
  state,          \* per hook: the React state {data, error, isPending, isInitial, isRejected}
  rendered,       \* per hook: the state of the last render (what the closures see)
  runningRef,     \* per hook: runningRef.current.symbol, 0 when runningRef.current is null
  lastResolvedRef,\* per hook: lastResolvedRef.current
  microtasks,     \* the JavaScript job queue: promise reactions and await continuations
  draining,       \* the event loop is running the job queue, between two tasks
  mounted         \* per hook: the component that calls the hook is mounted

vars == <<abortable, cacheOn, hookOptions, cache, promiseCache, memo, exec, nExec,
          now, state, rendered, runningRef, lastResolvedRef, microtasks, draining,
          mounted>>

\* What no operation of a mounted hook changes: the options of createHook and
\* of the hook, and the component being mounted.
config == <<abortable, cacheOn, hookOptions, mounted>>

\* ---------------------------------------------------------------- initial values
InitialState ==
  [data |-> Undefined, error |-> NoError, isPending |-> FALSE,
   isInitial |-> TRUE, isRejected |-> FALSE]

NoMemo ==
  [pc |-> "none", key |-> "k1", ignoreCache |-> FALSE, has |-> FALSE,
   called |-> FALSE, data |-> Undefined, cached |-> FALSE, error |-> NoError]

NoResult == [data |-> Undefined, latest |-> FALSE, cached |-> FALSE]

NoPrevState ==
  [data |-> Undefined, isInitial |-> TRUE, isRejected |-> FALSE, error |-> NoError]

NoExec ==
  [hook |-> 0, hash |-> "k1", runOptions |-> defaultOptions, startedAt |-> 0,
   prevState |-> NoPrevState, aborted |-> FALSE, memo |-> 0,
   userPromise |-> "none", result |-> NoResult, reason |-> NoError]

\* lastResolvedRef.current = {data, startedAt, symbol, hash}; the code reads
\* startedAt only, symbol identifies the execution that committed last.
NoLastResolved == [set |-> FALSE, startedAt |-> 0, symbol |-> 0]

\* ---------------------------------------------------------------- derived state
\* isSettled without the test of isInitial.
isSettledWhenNotPending(s) == ~s.isPending
\* const isSettled = !isPending && !isInitial
isSettled(s) == ~s.isPending /\ ~s.isInitial
\* const isResolved = isSettled && !isRejected
isResolved(s) == isSettled(s) /\ ~s.isRejected
status(s) ==
  IF s.isInitial THEN "initial"
  ELSE IF s.isPending THEN "pending"
  ELSE IF s.isRejected THEN "rejected"
  ELSE "resolved"

Init ==
  /\ abortable \in BOOLEAN
  /\ cacheOn \in BOOLEAN
  /\ hookOptions \in [Hooks -> HookOptionChoices]
  /\ cache = [k \in Keys |-> Undefined]
  /\ promiseCache = [k \in Keys |-> 0]
  /\ memo = [m \in Execs |-> NoMemo]
  /\ exec = [e \in Execs |-> NoExec]
  /\ nExec = 0
  /\ now = 0
  /\ state = [h \in Hooks |-> InitialState]
  /\ rendered = [h \in Hooks |-> InitialState]
  /\ runningRef = [h \in Hooks |-> 0]
  /\ lastResolvedRef = [h \in Hooks |-> NoLastResolved]
  /\ microtasks = <<>>
  /\ draining = FALSE
  /\ mounted = [h \in Hooks |-> TRUE]

\* ---------------------------------------------------------------- the job queue
Job(kind, id) == [kind |-> kind, id |-> id]
\* The job at the head of the queue is the next one to run.
IsNext(kind, id) == microtasks # <<>> /\ Head(microtasks) = Job(kind, id)

\* A task of the event loop starts only when the job queue is empty. User code
\* calls run() and cancel() one after the other in one task, before any job runs.
InTask == ~draining /\ UNCHANGED draining
\* A settlement of the task function's promise and a render are tasks of their
\* own; the jobs a settlement queues run before the next task. React renders
\* a state update before the next settlement arrives (rendered = state there),
\* while run() and cancel() may be called from closures of the previous render.
StartsTask == ~draining /\ microtasks = <<>>
\* A job leaves the queue as `rest`; once the jobs start to run they run until
\* the queue is empty.
RunsJob(rest) == microtasks' = rest /\ draining' = (rest # <<>>)

\* The executions whose run() attached .then(...).catch(...) to memoized promise m,
\* in the order of attachment, as jobs of the given kind.
Reactions(x, m, kind) ==
  LET attached == SelectSeq([e \in Execs |-> e], LAMBDA e : x[e].memo = m)
  IN [i \in 1..Len(attached) |-> Job(kind, attached[i])]

\* ---------------------------------------------------------------- garbage
\* The reactions of execution e are jobs of these kinds.
ReactionKinds == {"then", "pass", "catch", "finally"}
HasJob(q, e) == \E i \in 1..Len(q) : q[i].id = e /\ q[i].kind \in ReactionKinds

\* Execution e is in progress: a reaction of its run() is still to come.
Alive(x, mm, q, e) ==
  /\ x[e].userPromise # "none"
  /\ x[e].memo # 0
  /\ mm[x[e].memo].pc \notin {"resolved", "rejected"} \/ HasJob(q, e)

\* What stays reachable of a finished execution: the state of the promise run()
\* returned and of its AbortController, and { hash, runOptions } while
\* runningRef.current still is this execution.
Collected(xe, current) ==
  [NoExec EXCEPT !.hook = xe.hook, !.userPromise = xe.userPromise,
                 !.aborted = xe.aborted,
                 !.hash = IF current THEN xe.hash ELSE @,
                 !.runOptions = IF current THEN xe.runOptions ELSE @]

\* The executions x with the closures of the finished ones collected; runOptions
\* is a field of runningRef.current and lost once another run() replaces it.
Collect(x, mm, q, rr) ==
  [e \in Execs |->
     LET current == \E h \in Hooks : rr[h] = e
     IN IF x[e].userPromise = "none" THEN x[e]
        ELSE IF Alive(x, mm, q, e)
        THEN [x[e] EXCEPT !.runOptions = IF current THEN @ ELSE defaultOptions]
        ELSE Collected(x[e], current)]

\* A settled memoized promise no reaction will read again.
CollectMemo(mm, x) ==
  [m \in Execs |->
     IF mm[m].pc \in {"resolved", "rejected"} /\ \A e \in Execs : x[e].memo # m
     THEN [NoMemo EXCEPT !.pc = "collected"]
     ELSE mm[m]]

NumAlive == Cardinality({e \in Execs : Alive(exec, memo, microtasks, e)})

\* ---------------------------------------------------------------- pMemoize
\* fn.apply(this, arguments_): the task function is invoked. With `abortable`
\* the task receives the signal of the execution that created the promise and
\* rejects with the signal's reason when the signal is already aborted.
InvokeTask(mr, m) ==
  IF abortable /\ exec[m].aborted
  THEN [mr EXCEPT !.called = TRUE, !.pc = "rejecting", !.error = AbortReason(m)]
  ELSE [mr EXCEPT !.called = TRUE, !.pc = "task"]

\* StartMemo that awaits cache.has(key) also when the cache is disabled.
StartMemoAwaitsCache(key, ignoreCache) ==
  [NoMemo EXCEPT !.pc = "has", !.key = key, !.ignoreCache = ignoreCache,
                 !.has = (cache[key] # Undefined)]
\* createMemoizedRun({ignoreCache})(...args) up to its first await: the record of
\* the new promise. Without a cache the condition `cache && (await cache.has(key))`
\* awaits nothing and the task function is invoked at once.
StartMemo(key, ignoreCache) ==
  LET fresh == [NoMemo EXCEPT !.pc = "has", !.key = key, !.ignoreCache = ignoreCache,
                              !.has = (cache[key] # Undefined)]
  IN IF cacheOn THEN fresh ELSE [fresh EXCEPT !.called = TRUE, !.pc = "task"]

\* The continuation a memoized promise in the given state has queued.
Continuation(mr, m) ==
  IF mr.pc \in {"has", "get", "set"} THEN <<Job(mr.pc, m)>>
  ELSE IF mr.pc = "rejecting" THEN <<Job("throw", m)>>
  ELSE <<>>

\* SharesPromise without the test of ignoreCache.
SharesPromiseAlways(key, ignoreCache) == promiseCache[key] # 0
\* if (promiseCache.has(key) && !ignoreCache) return promiseCache.get(key)
SharesPromise(key, ignoreCache) == promiseCache[key] # 0 /\ ~ignoreCache

\* ---------------------------------------------------------------- run()
\* PendingState without setError(undefined).
PendingStateKeepsError(s, opts) ==
  [s EXCEPT !.isPending = TRUE, !.isRejected = FALSE, !.isInitial = FALSE,
            !.data = IF opts.keepPreviousData THEN @ ELSE Undefined]
\* setIsPending(true); setIsRejected(false); setError(undefined);
\* setIsInitial(false); if (!opts.keepPreviousData) setData(undefined)
PendingState(s, opts) ==
  [data |-> IF opts.keepPreviousData THEN s.data ELSE Undefined,
   error |-> NoError, isPending |-> TRUE, isInitial |-> FALSE,
   isRejected |-> FALSE]

\* createRunFn(runOptions)(...args) on hook h with cacheKey(args) = key; tick is
\* the time that passed since the previous Date.now().
Run(h, key, runOptions, tick) ==
  LET e == nExec + 1
      opts == MergeOpts(hookOptions[h], runOptions)
      startedAt == now + tick
      shares == SharesPromise(key, opts.ignoreCache)
      started == StartMemo(key, opts.ignoreCache)
      closure ==
        [NoExec EXCEPT
           !.hook = h, !.hash = key, !.runOptions = opts, !.startedAt = startedAt,
           !.prevState = [data |-> rendered[h].data,
                          isInitial |-> rendered[h].isInitial,
                          isRejected |-> rendered[h].isRejected,
                          error |-> rendered[h].error],
           !.memo = IF shares THEN promiseCache[key] ELSE e,
           !.userPromise = "pending"]
      memo2 == IF shares THEN memo ELSE [memo EXCEPT ![e] = started]
      queue2 == IF shares THEN microtasks ELSE microtasks \o Continuation(started, e)
      running2 == [runningRef EXCEPT ![h] = e]
  IN /\ InTask
     /\ nExec < MaxExec
     /\ NumAlive < MaxAlive
     /\ nExec' = e
     /\ now' = startedAt
     /\ exec' = Collect([exec EXCEPT ![e] = closure], memo2, queue2, running2)
     /\ runningRef' = running2
     /\ state' = [state EXCEPT ![h] = PendingState(@, opts)]
     /\ memo' = memo2
     /\ microtasks' = queue2
     /\ promiseCache' = IF shares THEN promiseCache
                        ELSE [promiseCache EXCEPT ![key] = e]
     /\ UNCHANGED <<config, cache, rendered, lastResolvedRef>>

\* ---------------------------------------------------------------- cancel()
\* abortController.abort() of execution e: the listener added by run() rejects
\* the user promise unless `abortable`.
\* RejectsOnAbort with the test of `abortable` inverted.
RejectsOnAbortInverted(e) ==
  ~exec[e].aborted /\ abortable /\ exec[e].userPromise = "pending"
\* if (!abortable) userPromise.reject(abortController.signal.reason)
RejectsOnAbort(e) == ~exec[e].aborted /\ ~abortable /\ exec[e].userPromise = "pending"

\* AbortExec that aborts every execution of the hook of e.
AbortExecAll(x, e) ==
  [d \in DOMAIN x |->
     IF x[d].hook = x[e].hook /\ x[d].userPromise # "none"
     THEN [x[d] EXCEPT !.aborted = TRUE]
     ELSE x[d]]
\* runningRef.current.abortController.abort(): the signal of execution e alone
AbortExec(x, e) ==
  IF x[e].aborted THEN x
  ELSE [x EXCEPT ![e].aborted = TRUE,
                 ![e].userPromise = IF RejectsOnAbort(e) THEN "rejected" ELSE @,
                 ![e].reason = IF RejectsOnAbort(e) THEN AbortReason(e) ELSE @]

\* The listener of an abortable task rejects the task's promise with the reason.
TaskAborts(e) == abortable /\ ~exec[e].aborted /\ memo[e].pc = "task"

AbortTask(mm, e) ==
  IF TaskAborts(e)
  THEN [mm EXCEPT ![e].pc = "rejecting", ![e].error = AbortReason(e)]
  ELSE mm

\* The body of cancel(): if (!runningRef.current) return;
\* runningRef.current.abortController.abort();
\* promiseCache.delete(runningRef.current.hash)
Cancelled(h) ==
  LET e == runningRef[h]
  IN /\ InTask
     /\ e # 0
     /\ exec' = AbortExec(exec, e)
     /\ memo' = AbortTask(memo, e)
     /\ microtasks' = microtasks
          \o (IF RejectsOnAbort(e) THEN <<Job("finally", e)>> ELSE <<>>)
          \o (IF TaskAborts(e) THEN <<Job("throw", e)>> ELSE <<>>)
     /\ promiseCache' = [promiseCache EXCEPT ![exec[e].hash] = 0]
     /\ UNCHANGED <<cache, nExec, now, state, rendered, runningRef,
                    lastResolvedRef>>

\* cancel() called by the user of the hook
Cancel(h) == Cancelled(h) /\ UNCHANGED config

\* ---------------------------------------------------------------- pMemoize continuations
\* Released without the promiseCache.delete(key).
ReleasedNever(key) == promiseCache
\* finally { promiseCache.delete(key) }
Released(key) == [promiseCache EXCEPT ![key] = 0]

\* ReadsCache with the test of ignoreCache inverted.
ReadsCacheWhenIgnored(mr) == mr.has /\ mr.ignoreCache
\* if (cache && (await cache.has(key)) && !ignoreCache)
ReadsCache(mr) == mr.has /\ ~mr.ignoreCache

\* after `await cache.has(key)`: read the cache or invoke the task function
MemoAfterHas(m) ==
  LET next == IF ReadsCache(memo[m])
              THEN [memo[m] EXCEPT !.pc = "get", !.data = cache[memo[m].key]]
              ELSE InvokeTask(memo[m], m)
  IN /\ IsNext("has", m)
     /\ memo' = [memo EXCEPT ![m] = next]
     /\ RunsJob(Tail(microtasks) \o Continuation(next, m))
     /\ UNCHANGED <<config, cache, promiseCache, exec, nExec, now, state, rendered,
                    runningRef, lastResolvedRef>>

\* after `await cache.get(key)`: return {data, cached: true}; finally promiseCache.delete(key)
MemoAfterGet(m) ==
  /\ IsNext("get", m)
  /\ memo' = [memo EXCEPT ![m].pc = "resolved", ![m].cached = TRUE]
  /\ promiseCache' = Released(memo[m].key)
  /\ RunsJob(Tail(microtasks) \o Reactions(exec, m, "then"))
  /\ UNCHANGED <<config, cache, exec, nExec, now, state, rendered, runningRef,
                 lastResolvedRef>>

\* The task's promise resolves with a value.
TaskResolves(m) ==
  /\ StartsTask
  /\ rendered = state
  /\ draining' = TRUE
  /\ memo[m].pc = "task"
  /\ memo' = [memo EXCEPT ![m].pc = "resume", ![m].data = m]
  /\ microtasks' = Append(microtasks, Job("resume", m))
  /\ UNCHANGED <<config, cache, promiseCache, exec, nExec, now, state, rendered,
                 runningRef, lastResolvedRef>>

\* Stored by a store that evicts every other entry.
StoredAlone(key, value) == [k \in Keys |-> IF k = key THEN value ELSE Undefined]
\* cache.set(key, result)
Stored(key, value) == [cache EXCEPT ![key] = value]

\* after `const result = await promise`: cache.set(key, result) in the inner finally
\* (without a cache the async function returns at once)
MemoAfterTask(m) ==
  /\ IsNext("resume", m)
  /\ IF cacheOn
     THEN /\ memo' = [memo EXCEPT ![m].pc = "set"]
          /\ cache' = Stored(memo[m].key, memo[m].data)
          /\ RunsJob(Append(Tail(microtasks), Job("set", m)))
          /\ UNCHANGED promiseCache
     ELSE /\ memo' = [memo EXCEPT ![m].pc = "resolved"]
          /\ promiseCache' = Released(memo[m].key)
          /\ RunsJob(Tail(microtasks) \o Reactions(exec, m, "then"))
          /\ UNCHANGED cache
  /\ UNCHANGED <<config, exec, nExec, now, state, rendered, runningRef,
                 lastResolvedRef>>

\* after `await cache.set(key, result)`: return {data: result, cached: false};
\* finally promiseCache.delete(key)
MemoAfterSet(m) ==
  /\ IsNext("set", m)
  /\ memo' = [memo EXCEPT ![m].pc = "resolved"]
  /\ promiseCache' = Released(memo[m].key)
  /\ RunsJob(Tail(microtasks) \o Reactions(exec, m, "then"))
  /\ UNCHANGED <<config, cache, exec, nExec, now, state, rendered, runningRef,
                 lastResolvedRef>>

\* The task's promise rejects with an error of its own.
TaskRejects(m) ==
  /\ StartsTask
  /\ rendered = state
  /\ draining' = TRUE
  /\ memo[m].pc = "task"
  /\ memo' = [memo EXCEPT ![m].pc = "rejecting", ![m].error = TaskError(m)]
  /\ microtasks' = Append(microtasks, Job("throw", m))
  /\ UNCHANGED <<config, cache, promiseCache, exec, nExec, now, state, rendered,
                 runningRef, lastResolvedRef>>

\* `await promise` throws: finally promiseCache.delete(key), the memoized promise rejects
MemoThrows(m) ==
  /\ IsNext("throw", m)
  /\ memo' = [memo EXCEPT ![m].pc = "rejected"]
  /\ promiseCache' = Released(memo[m].key)
  /\ RunsJob(Tail(microtasks) \o Reactions(exec, m, "pass"))
  /\ UNCHANGED <<config, cache, exec, nExec, now, state, rendered, runningRef,
                 lastResolvedRef>>

\* ---------------------------------------------------------------- promise reactions of run()
\* IsCurrent without the comparison: every execution counts as the current one.
IsCurrentAlways(h, e) == TRUE
\* runningRef.current?.symbol === executionSymbol
IsCurrent(h, e) == runningRef[h] = e

\* latest: !lastResolvedRef.current || lastResolvedRef.current?.startedAt < startedAt
Latest(last, startedAt) == ~last.set \/ last.startedAt < startedAt

\* Commits with the comparison of `latest`: an execution started in the same
\* millisecond as the last committed one no longer commits.
CommitsStrictlyLater(last, startedAt) == ~last.set \/ last.startedAt < startedAt
\* Commits without the comparison: every resolved execution commits.
CommitsAlways(last, startedAt) == TRUE
\* if (!lastResolvedRef.current || lastResolvedRef.current?.startedAt <= startedAt)
Commits(last, startedAt) == ~last.set \/ last.startedAt <= startedAt

\* A reaction of run() has run: the job queue, the executions and the memoized
\* promises it leaves behind.
Reacted(x, rest, running) ==
  LET left == Collect(x, memo, rest, running)
  IN /\ RunsJob(rest)
     /\ exec' = left
     /\ memo' = CollectMemo(memo, left)

\* Result with cached always false.
ResultNeverCached(mr, latest) == [data |-> mr.data, cached |-> FALSE, latest |-> latest]
\* userPromise.resolve({...data, latest}) with data = {data, cached}
Result(mr, latest) == [data |-> mr.data, cached |-> mr.cached, latest |-> latest]

\* promise.then((data) => ...) of execution e
OnResolve(e) ==
  LET h == exec[e].hook
      m == exec[e].memo
      last == lastResolvedRef[h]
      commit == ~exec[e].aborted /\ Commits(last, exec[e].startedAt)
      resolves == ~exec[e].aborted /\ exec[e].userPromise = "pending"
      settled ==
        IF resolves
        THEN [exec EXCEPT
                ![e].userPromise = "resolved",
                ![e].result = Result(memo[m], Latest(last, exec[e].startedAt))]
        ELSE exec
  IN /\ IsNext("then", e)
     /\ Reacted(settled,
                Tail(microtasks) \o (IF resolves THEN <<Job("finally", e)>> ELSE <<>>),
                runningRef)
     /\ lastResolvedRef' =
          IF commit
          THEN [lastResolvedRef EXCEPT ![h] =
                  [set |-> TRUE, startedAt |-> exec[e].startedAt, symbol |-> e]]
          ELSE lastResolvedRef
     /\ state' =
          IF exec[e].aborted THEN state
          ELSE [state EXCEPT
                  ![h].data = IF commit THEN memo[m].data ELSE @,
                  ![h].isRejected = IF IsCurrent(h, e) THEN FALSE ELSE @]
     /\ UNCHANGED <<config, cache, promiseCache, nExec, now, rendered, runningRef>>

\* promise.then(onFulfilled) has no rejection handler: the rejection of the
\* memoized promise passes to the promise .catch(...) is attached to.
ThenPasses(e) ==
  /\ IsNext("pass", e)
  /\ RunsJob(Append(Tail(microtasks), Job("catch", e)))
  /\ UNCHANGED <<config, cache, promiseCache, memo, exec, nExec, now, state,
                 rendered, runningRef, lastResolvedRef>>

\* .catch((error) => ...) of execution e
OnReject(e) ==
  LET h == exec[e].hook
      m == exec[e].memo
      error == memo[m].error
      forwards == IF exec[e].aborted THEN error = AbortReason(e) ELSE TRUE
      rejects == forwards /\ exec[e].userPromise = "pending"
      settled ==
        IF rejects
        THEN [exec EXCEPT ![e].userPromise = "rejected", ![e].reason = error]
        ELSE exec
  IN /\ IsNext("catch", e)
     /\ Reacted(settled,
                Tail(microtasks) \o (IF rejects THEN <<Job("finally", e)>> ELSE <<>>),
                runningRef)
     /\ state' =
          IF ~exec[e].aborted /\ IsCurrent(h, e)
          THEN [state EXCEPT ![h].error = error, ![h].isRejected = TRUE]
          ELSE state
     /\ UNCHANGED <<config, cache, promiseCache, nExec, now, rendered,
                    runningRef, lastResolvedRef>>

\* RolledBack without setIsInitial(prevState.isInitial).
RolledBackStatusKept(s, prev) ==
  [s EXCEPT !.isPending = FALSE, !.isRejected = prev.isRejected, !.data = prev.data]
\* setIsPending(false) and, the signal being aborted, setIsRejected(prevState.isRejected),
\* setIsInitial(prevState.isInitial), setData(prevState.data)
RolledBack(s, prev) ==
  [s EXCEPT !.isPending = FALSE, !.isRejected = prev.isRejected,
            !.isInitial = prev.isInitial, !.data = prev.data]

\* userPromise.promise.finally(() => ...) of execution e
Finally(e) ==
  LET h == exec[e].hook
      current == IsCurrent(h, e)
      running2 == IF current THEN [runningRef EXCEPT ![h] = 0] ELSE runningRef
  IN /\ IsNext("finally", e)
     /\ Reacted(exec, Tail(microtasks), running2)
     /\ runningRef' = running2
     /\ state' =
          IF ~current THEN state
          ELSE IF ~exec[e].aborted THEN [state EXCEPT ![h].isPending = FALSE]
          ELSE [state EXCEPT ![h] = RolledBack(@, exec[e].prevState)]
     /\ UNCHANGED <<config, cache, promiseCache, nExec, now, rendered,
                    lastResolvedRef>>

\* ---------------------------------------------------------------- React
\* The hook re-renders: the closures of the next run() see the current state.
Render(h) ==
  /\ StartsTask
  /\ rendered[h] # state[h]
  /\ rendered' = [rendered EXCEPT ![h] = state[h]]
  /\ UNCHANGED <<config, cache, promiseCache, memo, exec, nExec, now, state,
                 runningRef, lastResolvedRef, microtasks, draining>>

\* ---------------------------------------------------------------- specification
\* The inputs of a run() call. Keys are interchangeable and the code compares
\* timestamps only with each other, so the first call is the one of key "k1"
\* at time 0; every later call has any key and the same or a later timestamp.
RunInputs(key, tick) == nExec = 0 => (key = "k1" /\ tick = 0)

Next ==
  \/ \E h \in Hooks, key \in Keys, runOptions \in RunOptionChoices, tick \in {0, 1} :
       RunInputs(key, tick) /\ Run(h, key, runOptions, tick)
  \/ \E h \in Hooks : Cancel(h)
  \/ \E m \in Execs : MemoAfterHas(m)
  \/ \E m \in Execs : MemoAfterGet(m)
  \/ \E m \in Execs : TaskResolves(m)
  \/ \E m \in Execs : MemoAfterTask(m)
  \/ \E m \in Execs : MemoAfterSet(m)
  \/ \E m \in Execs : TaskRejects(m)
  \/ \E m \in Execs : MemoThrows(m)
  \/ \E e \in Execs : OnResolve(e)
  \/ \E e \in Execs : ThenPasses(e)
  \/ \E e \in Execs : OnReject(e)
  \/ \E e \in Execs : Finally(e)
  \/ \E h \in Hooks : Render(h)

Spec == Init /\ [][Next]_vars

\* ---------------------------------------------------------------- properties
\* Execution e has not settled the promise run() returned and its closures are live.
Pending(e) == exec[e].userPromise = "pending" /\ exec[e].memo # 0
\* Execution e was started with ignoreCache = true (a run() that shares a
\* registered promise was started with ignoreCache = false).
IgnoresCache(e) == exec[e].memo = e /\ memo[e].ignoreCache
\* The task function was invoked for memoized promise m and has not settled.
InFlight(m) == memo[m].pc = "task"

\* C1 (single-flight): two consecutive calls run(k), run(k) with ignoreCache =
\* false, the second issued while the first is pending and not cancelled, are
\* served by one invocation of the task function: they hold the same memoized
\* promise, hence resolve with the same data and cached flag.
C1_SingleFlight ==
  \A a \in Execs, b \in Execs :
    ( /\ b = a + 1
      /\ Pending(a) /\ Pending(b)
      /\ exec[a].hash = exec[b].hash
      /\ ~IgnoresCache(a) /\ ~IgnoresCache(b)
      /\ ~exec[a].aborted )
    => exec[a].memo = exec[b].memo

\* C2 (at most one in flight): at every instant and for every cache key at most
\* one invocation of the task function started by a run with ignoreCache = false
\* is in flight.
C2_OneInFlightPerKey ==
  \A m1 \in Execs, m2 \in Execs :
    ( /\ InFlight(m1) /\ InFlight(m2)
      /\ memo[m1].key = memo[m2].key
      /\ ~memo[m1].ignoreCache /\ ~memo[m2].ignoreCache )
    => m1 = m2

\* Execution e is the most recently started execution of its hook.
MostRecent(e) == \A c \in Execs : exec[c].hook = exec[e].hook => c <= e
\* The then-callback of execution e runs and e was not cancelled: e resolves.
Resolves(e) == OnResolve(e) /\ ~exec[e].aborted
\* The data the memoized promise of execution e resolved with.
DataOf(e) == memo[exec[e].memo].data
\* An execution started after e (a later run() call) committed last on e's hook.
Overtaken(e) ==
  /\ lastResolvedRef[exec[e].hook].set
  /\ lastResolvedRef[exec[e].hook].symbol > e
\* ... and its start timestamp is strictly later than e's.
OvertakenLater(e) ==
  Overtaken(e) /\ lastResolvedRef[exec[e].hook].startedAt > exec[e].startedAt
\* What the claim says of the straggler A when it resolves: Controller data stays
\* as it is, A's promise resolves with A's data and latest = false.
StragglerKept(a) ==
  /\ state'[exec[a].hook].data = state[exec[a].hook].data
  /\ exec'[a].userPromise = "resolved"
  /\ exec'[a].result.data = DataOf(a)
  /\ exec'[a].result.latest = FALSE

\* C3 as stated (latest wins by start order): when B, started after A on the same
\* hook, has resolved and committed before A, then A's resolution leaves
\* Controller data as it is and A's promise resolves with A's data and latest = false.
C3_LatestWinsByCallOrder ==
  [][\A a \in Execs : (Resolves(a) /\ Overtaken(a)) => StragglerKept(a)]_vars

\* C3 amended: the most recently started execution B of a hook commits its data
\* when it resolves; and when B's start timestamp is strictly later than A's and
\* B committed before A resolves, A's resolution leaves Controller data as it
\* is and A's promise resolves with A's data and latest = false.
C3_LatestWins ==
  [][\A e \in Execs :
       /\ (Resolves(e) /\ MostRecent(e)) => state'[exec[e].hook].data = DataOf(e)
       /\ (Resolves(e) /\ OvertakenLater(e)) => StragglerKept(e)]_vars

\* C3 witness: A has resolved with its own data and latest = false after the
\* later-started B committed; Controller data still is B's value.
C3_Witness ==
  \E a \in Execs :
    /\ exec[a].userPromise = "resolved" /\ exec[a].memo = a
    /\ exec[a].result.data = a /\ ~exec[a].result.latest
    /\ OvertakenLater(a)
    /\ state[exec[a].hook].data = lastResolvedRef[exec[a].hook].symbol

\* C4 (commit rule): when a non-cancelled execution with start time t resolves,
\* its data is written to Controller data and the last committed start time
\* becomes t if nothing was committed before or the last committed start time
\* is <= t; otherwise Controller data and the last commit stay as they are.
C4_CommitRule ==
  [][\A e \in Execs :
       Resolves(e) =>
         LET h == exec[e].hook
             t == exec[e].startedAt
             last == lastResolvedRef[h]
         IN IF ~last.set \/ last.startedAt <= t
            THEN /\ state'[h].data = DataOf(e)
                 /\ lastResolvedRef'[h].set
                 /\ lastResolvedRef'[h].startedAt = t
            ELSE /\ state'[h].data = state[h].data
                 /\ lastResolvedRef'[h] = last]_vars

\* C4 witness: both cases happened: an execution committed, and an execution
\* started before it resolved afterwards without committing.
C4_Witness ==
  \E e \in Execs :
    /\ exec[e].userPromise = "resolved" /\ exec[e].memo # 0
    /\ lastResolvedRef[exec[e].hook].set
    /\ lastResolvedRef[exec[e].hook].startedAt > exec[e].startedAt
    /\ state[exec[e].hook].data # exec[e].result.data

\* C5 (latest flag): the latest flag of a resolved result is true if and only if
\* the execution was still the most recently started one of its hook when it
\* settled.
C5_LatestIffMostRecent ==
  [][\A e \in Execs : Resolves(e) => (exec'[e].result.latest <=> MostRecent(e))]_vars

\* C6 (cache writes): cache.set(key, v) is performed only for an execution whose
\* task function resolved with v and which was not cancelled.
C6_CacheSetOnlyUncancelled ==
  [][\A m \in Execs :
       (MemoAfterTask(m) /\ cacheOn) =>
         (cache'[memo[m].key] = memo[m].data /\ ~exec[m].aborted)]_vars

\* C7 as stated (cache hit): once the cache holds a value for key k, every later
\* run(k) with ignoreCache = false that resolves does so with cached = true.
C7_CacheHitEveryRun ==
  [][\A e \in Execs :
       (Resolves(e) /\ ~IgnoresCache(e) /\ memo[exec[e].memo].has)
         => exec'[e].result.cached]_vars

\* C7 amended: once the cache holds a value for key k, every later run(k) with
\* ignoreCache = false that starts while no promise is registered for k, and is
\* not cancelled, resolves with the stored value and cached = true, the task
\* function not having been invoked for it.
C7_CacheHit ==
  [][\A e \in Execs :
       (Resolves(e) /\ exec[e].memo = e /\ ~memo[e].ignoreCache /\ memo[e].has)
         => /\ exec'[e].userPromise = "resolved"
            /\ exec'[e].result.cached
            /\ exec'[e].result.data = cache[exec[e].hash]
            /\ exec'[e].result.data # Undefined
            /\ ~memo[e].called]_vars

\* C7 witness: a run that found the key in the cache has resolved with the
\* stored value and cached = true, without an invocation of the task function.
C7_Witness ==
  \E e \in Execs :
    /\ exec[e].userPromise = "resolved" /\ exec[e].memo = e
    /\ memo[e].has /\ ~memo[e].ignoreCache /\ ~memo[e].called
    /\ exec[e].result.cached
    /\ exec[e].result.data = cache[exec[e].hash]
    /\ exec[e].result.data # Undefined

\* The snapshot run() takes of the initial state.
InitialSnapshot ==
  [data |-> Undefined, isInitial |-> TRUE, isRejected |-> FALSE, error |-> NoError]

C9_RollbackRestoresAll ==
  [][\A e \in Execs :
       (Finally(e) /\ exec[e].aborted /\ runningRef[exec[e].hook] = e)
       => LET after == state'[exec[e].hook]
              prev == exec[e].prevState
          IN /\ after.data = prev.data
             /\ after.error = prev.error
             /\ after.isInitial = prev.isInitial
             /\ after.isRejected = prev.isRejected]_vars

\* C10 (rollback at cancel): cancel() of a pending execution itself rejects the
\* promise of the execution and thereby queues the rollback, whether or not the
\* task function settles, in the abortable and the non-abortable configuration.
C10_RollbackAtCancel ==
  [][\A h \in Hooks :
       (Cancel(h) /\ exec[runningRef[h]].userPromise = "pending")
         => /\ exec'[runningRef[h]].userPromise = "rejected"
            /\ HasJob(microtasks', runningRef[h])]_vars

\* C11 (cancellation rejects the future): cancel() of a pending execution of a
\* hook that is not abortable rejects the promise run() returned with the
\* reason of the abort signal; when the hook is abortable and the memoized
\* promise of the cancelled execution rejects with the reason of the signal,
\* the promise run() returned is rejected with that reason.
C11_CancelRejects ==
  [][/\ \A h \in Hooks :
          LET e == runningRef[h]
          IN (Cancel(h) /\ ~abortable /\ Pending(e) /\ ~exec[e].aborted)
               => /\ exec'[e].userPromise = "rejected"
                  /\ exec'[e].reason = AbortReason(e)
     /\ \A e \in Execs :
          (/\ OnReject(e) /\ abortable /\ exec[e].aborted /\ Pending(e)
           /\ memo[exec[e].memo].error = AbortReason(e))
            => /\ exec'[e].userPromise = "rejected"
               /\ exec'[e].reason = AbortReason(e)]_vars

\* C11 witness: in an abortable hook a cancelled execution has been rejected
\* with the reason of its signal, and its finally callback is still to run.
C11_Witness ==
  /\ abortable
  /\ \E e \in Execs :
       /\ exec[e].aborted
       /\ exec[e].userPromise = "rejected"
       /\ exec[e].reason = AbortReason(e)
       /\ HasJob(microtasks, e)

\* C12 (every future settles): the promise run() returned settles once the
\* promise of the task function behind it has settled, also for a cancelled
\* execution and for one that shares another call's promise, abortable or not:
\* whenever such a promise is still pending and no job is left to run, the
\* task function's promise behind it has not settled yet.
C12_FutureSettles ==
  \A e \in Execs :
    (exec[e].userPromise = "pending" /\ microtasks = <<>>)
      => (exec[e].memo # 0 /\ memo[exec[e].memo].pc = "task")

\* C13 (no failure is dropped): when the memoized promise of an execution
\* rejects with an error, the catch callback of the execution leaves the promise
\* run() returned rejected; it never leaves that promise pending while the state
\* of the hook shows no error either.
C13_FailureReachesFuture ==
  [][\A e \in Execs :
       OnReject(e)
         => /\ exec'[e].userPromise = "rejected"
            /\ ~(/\ exec'[e].userPromise = "pending"
                 /\ state'[exec[e].hook].error = NoError)]_vars

\* C14 (errors commit only while current): when the memoized promise of a
\* non-cancelled execution rejects with an error, the promise run() returned is
\* rejected with that error; if no newer run() has begun the state's error
\* becomes that error with isRejected set, and the status is "rejected" once the
\* finally callback has run; for a superseded execution the catch and the
\* finally callback leave the state of the hook unchanged.
C14_ErrorOnlyWhileCurrent ==
  [][/\ \A e \in Execs :
          (OnReject(e) /\ ~exec[e].aborted)
            => LET h == exec[e].hook
                   error == memo[exec[e].memo].error
               IN /\ exec'[e].userPromise = "rejected"
                  /\ exec'[e].reason = error
                  /\ state'[h] =
                       IF MostRecent(e)
                       THEN [state[h] EXCEPT !.error = error, !.isRejected = TRUE]
                       ELSE state[h]
     /\ \A e \in Execs :
          (Finally(e) /\ ~exec[e].aborted /\ exec[e].userPromise = "rejected")
            => LET h == exec[e].hook
               IN IF MostRecent(e)
                  THEN /\ status(state'[h]) = "rejected"
                       /\ state'[h].error = exec[e].reason
                  ELSE state'[h] = state[h]]_vars

\* C14 witness: a superseded, non-cancelled execution has been rejected with the
\* error of its task while the state of the hook shows another error or none.
C14_Witness ==
  \E e \in Execs :
    /\ exec[e].userPromise = "rejected"
    /\ ~exec[e].aborted
    /\ exec[e].reason = TaskError(exec[e].memo)
    /\ ~MostRecent(e)
    /\ HasJob(microtasks, e)
    /\ state[exec[e].hook].error # exec[e].reason

\* C15 (the current execution resolves): when the memoized promise of the most
\* recently started, non-cancelled execution resolves with a value, the then
\* callback commits that value as data, and after the finally callback the
\* state is status "resolved" with that value as data and error undefined.
C15_CurrentResolves ==
  [][/\ \A e \in Execs :
          (Resolves(e) /\ MostRecent(e))
            => state'[exec[e].hook].data = memo[exec[e].memo].data
     /\ \A e \in Execs :
          (/\ Finally(e) /\ MostRecent(e) /\ ~exec[e].aborted
           /\ exec[e].userPromise = "resolved")
            => state'[exec[e].hook] =
                 [data |-> exec[e].result.data, error |-> NoError,
                  isPending |-> FALSE, isInitial |-> FALSE,
                  isRejected |-> FALSE]]_vars

\* C15 witness: the most recently started execution of a hook resolved without
\* being cancelled, all its callbacks have run, and the state is "resolved"
\* with the data it committed.
C15_Witness ==
  \E e \in Execs :
    LET h == exec[e].hook
    IN /\ exec[e].userPromise = "resolved"
       /\ ~exec[e].aborted
       /\ MostRecent(e)
       /\ ~HasJob(microtasks, e)
       /\ runningRef[h] = 0
       /\ lastResolvedRef[h].symbol = e
       /\ status(state[h]) = "resolved"
       /\ state[h].data # Undefined

\* C16 (status machine): in every step the status of a hook becomes "pending"
\* only by a run() call of that hook, and becomes "resolved" or "rejected" only
\* from "pending": never from "initial", and never from one to the other.
C16_StatusMachine ==
  [][\A h \in Hooks :
       LET before == status(state[h])
           after == status(state'[h])
       IN /\ (after = "pending" /\ before # "pending")
               => \E key \in Keys, runOptions \in RunOptionChoices, tick \in {0, 1} :
                    Run(h, key, runOptions, tick)
          /\ (after \in {"resolved", "rejected"} /\ after # before)
               => before = "pending"]_vars

\* C16 witness: a hook went through initial, pending, resolved, pending and is
\* now "rejected": an execution committed earlier, the last one failed.
C16_Witness ==
  \E h \in Hooks :
    /\ status(state[h]) = "rejected"
    /\ state[h].error # NoError
    /\ lastResolvedRef[h].set
    /\ runningRef[h] = 0

\* C17 (run() sets pending): every run() call, from any state, leaves the status
\* "pending" and the error undefined; data is undefined unless the merged
\* keepPreviousData option is true, in which case data keeps the value it had.
C17_RunSetsPending ==
  [][\A h \in Hooks, key \in Keys, runOptions \in RunOptionChoices, tick \in {0, 1} :
       Run(h, key, runOptions, tick)
         => LET keep == MergeOpts(hookOptions[h], runOptions).keepPreviousData
            IN /\ status(state'[h]) = "pending"
               /\ state'[h].error = NoError
               /\ state'[h].data = IF keep THEN state[h].data ELSE Undefined]_vars

\* C17 witness: a run() with keepPreviousData is pending and the state still
\* holds the data committed before it.
C17_Witness ==
  \E h \in Hooks :
    /\ runningRef[h] # 0
    /\ Pending(runningRef[h])
    /\ exec[runningRef[h]].runOptions.keepPreviousData
    /\ status(state[h]) = "pending"
    /\ state[h].data # Undefined
    /\ state[h].error = NoError

\* ---------------------------------------------------------------- option layering
OptionNames == DOMAIN defaultOptions
\* Every RunConfig: each of the three options is absent, true or false.
AllOptionRecords == UNION {[d -> BOOLEAN] : d \in SUBSET OptionNames}

\* The hook is given any RunConfig.
InitLayering ==
  /\ abortable \in BOOLEAN
  /\ cacheOn \in BOOLEAN
  /\ hookOptions \in [Hooks -> AllOptionRecords]
  /\ cache = [k \in Keys |-> Undefined]
  /\ promiseCache = [k \in Keys |-> 0]
  /\ memo = [m \in Execs |-> NoMemo]
  /\ exec = [e \in Execs |-> NoExec]
  /\ nExec = 0
  /\ now = 0
  /\ state = [h \in Hooks |-> InitialState]
  /\ rendered = [h \in Hooks |-> InitialState]
  /\ runningRef = [h \in Hooks |-> 0]
  /\ lastResolvedRef = [h \in Hooks |-> NoLastResolved]
  /\ microtasks = <<>>
  /\ draining = FALSE
  /\ mounted = [h \in Hooks |-> TRUE]

\* run.withOpts(runOptions)(...args) with any RunConfig; run(...args) is the
\* call with no options.
RunWithOpts ==
  \E h \in Hooks, key \in Keys, runOptions \in AllOptionRecords, tick \in {0, 1} :
    RunInputs(key, tick) /\ Run(h, key, runOptions, tick)

NextLayering == RunWithOpts

\* run() calls of one task, with every combination of hook options and
\* per-call options.
SpecLayering == InitLayering /\ [][NextLayering]_vars

\* The effective value of each option: the per-call override if present,
\* otherwise the option of the hook if present, otherwise false.
Layered(hookOpts, runOpts) ==
  [n \in OptionNames |->
     IF n \in DOMAIN runOpts THEN runOpts[n]
     ELSE IF n \in DOMAIN hookOpts THEN hookOpts[n]
     ELSE FALSE]

\* C18 (option layering): the options a run uses are, for each of
\* cancelOnUnmount, keepPreviousData and ignoreCache, the per-call override if
\* present, otherwise the option of the hook if present, otherwise false; the
\* execution records them, data is kept or cleared by the effective
\* keepPreviousData, and the registered promise is shared or not by the
\* effective ignoreCache. A plain run(...) is the call without overrides.
C18_OptionLayering ==
  [][\A h \in Hooks, key \in Keys, runOptions \in AllOptionRecords, tick \in {0, 1} :
       Run(h, key, runOptions, tick)
         => LET e == nExec + 1
                effective == Layered(hookOptions[h], runOptions)
            IN /\ exec'[e].runOptions = effective
               /\ state'[h].data =
                    IF effective.keepPreviousData THEN state[h].data ELSE Undefined
               /\ exec'[e].memo =
                    IF promiseCache[key] # 0 /\ ~effective.ignoreCache
                    THEN promiseCache[key] ELSE e]_vars

\* C18 witness: the current execution runs with cancelOnUnmount from the
\* default, keepPreviousData from the hook and ignoreCache from the override
\* that replaced the hook's value.
C18_Witness ==
  \E h \in Hooks :
    /\ runningRef[h] # 0
    /\ hookOptions[h] = [keepPreviousData |-> TRUE, ignoreCache |-> FALSE]
    /\ exec[runningRef[h]].runOptions =
         [cancelOnUnmount |-> FALSE, keepPreviousData |-> TRUE, ignoreCache |-> TRUE]
    /\ exec[runningRef[h]].memo = runningRef[h]
    /\ promiseCache[exec[runningRef[h]].hash] = runningRef[h]
    /\ nExec = 2

\* The memoized promise m is in flight: created and not settled.
InFlightPcs == {"has", "get", "task", "resume", "set", "rejecting"}

\* Every record of the registry is the promise of a pending execution: the
\* execution that registered it has neither settled nor been cancelled.
RecordsArePending ==
  \A k \in Keys :
    LET m == promiseCache[k]
    IN m # 0 => /\ memo[m].key = k
                /\ memo[m].pc \in InFlightPcs
                /\ Pending(m)
                /\ ~exec[m].aborted

\* C19 (records live only while pending): a record for key k is in the registry
\* only while the execution that registered it is pending; once it has settled
\* or was cancelled no record of it remains, and a run(k) that finds no record
\* starts a promise of its own, so that no run() receives a settled promise.
C19_RecordOnlyWhilePending ==
  [][/\ RecordsArePending'
     /\ \A h \in Hooks, key \in Keys, runOptions \in RunOptionChoices, tick \in {0, 1} :
          Run(h, key, runOptions, tick)
            => LET e == nExec + 1
               IN /\ memo'[exec'[e].memo].pc \in InFlightPcs
                  /\ promiseCache[key] = 0 => exec'[e].memo = e]_vars

\* C19 witness: an execution for a key settled and stored its value, its record
\* is gone, and the next run() of that key has registered a promise of its own
\* (which is about to read the cache).
C19_Witness ==
  \E e \in Execs :
    /\ exec[e].memo = e
    /\ Pending(e)
    /\ memo[e].pc = "has"
    /\ memo[e].has
    /\ ~memo[e].ignoreCache
    /\ promiseCache[memo[e].key] = e

\* C20 (ignoreCache): a run with the effective ignoreCache = true creates a
\* promise of its own even when a record is registered for its key, and that
\* promise invokes the task function even when the cache holds an entry for the
\* key; a run with ignoreCache = false and a record registered for its key
\* receives the registered promise and creates none.
C20_IgnoreCacheStartsFresh ==
  [][/\ \A h \in Hooks, key \in Keys, runOptions \in RunOptionChoices, tick \in {0, 1} :
          Run(h, key, runOptions, tick)
            => LET e == nExec + 1
                   ignoreCache == MergeOpts(hookOptions[h], runOptions).ignoreCache
               IN /\ ignoreCache
                       => /\ exec'[e].memo = e
                          /\ memo'[e].ignoreCache
                          /\ memo'[e].pc = "has" \/ memo'[e].called
                  /\ (~ignoreCache /\ promiseCache[key] # 0)
                       => /\ exec'[e].memo = promiseCache[key]
                          /\ memo' = memo
                          /\ promiseCache' = promiseCache
     /\ \A m \in Execs :
          (MemoAfterHas(m) /\ memo[m].ignoreCache)
            => /\ memo'[m].called
               /\ memo'[m].pc \in {"task", "rejecting"}]_vars

\* C20 witness: a run with ignoreCache has invoked the task function although
\* the cache holds an entry for its key and an earlier promise for the same key
\* is in flight.
C20_Witness ==
  \E e \in Execs, m \in Execs :
    /\ m < e
    /\ exec[e].memo = e
    /\ memo[e].ignoreCache
    /\ memo[e].has
    /\ memo[e].called
    /\ memo[e].pc = "task"
    /\ memo[m].pc \in InFlightPcs
    /\ memo[m].key = memo[e].key

\* ---------------------------------------------------------------- a failing cache store
\* The error a cache store operation of memoized promise m throws.
StoreError(m) == <<"store", m>>

\* StoreReadFails with the error swallowed: the memoized promise resolves
\* with no data.
StoreReadSwallowed(m) ==
  /\ cacheOn
  /\ IsNext("has", m) \/ IsNext("get", m)
  /\ memo' = [memo EXCEPT ![m].pc = "resolved"]
  /\ promiseCache' = Released(memo[m].key)
  /\ RunsJob(Tail(microtasks) \o Reactions(exec, m, "then"))
  /\ UNCHANGED <<config, cache, exec, nExec, now, state, rendered, runningRef,
                 lastResolvedRef>>
\* `await cache.has(key)` or `await cache.get(key)` throws: the outer finally
\* deletes the record and the memoized promise rejects with the store's error.
StoreReadFails(m) ==
  /\ cacheOn
  /\ IsNext("has", m) \/ IsNext("get", m)
  /\ memo' = [memo EXCEPT ![m].pc = "rejected", ![m].error = StoreError(m)]
  /\ promiseCache' = Released(memo[m].key)
  /\ RunsJob(Tail(microtasks) \o Reactions(exec, m, "pass"))
  /\ UNCHANGED <<config, cache, exec, nExec, now, state, rendered, runningRef,
                 lastResolvedRef>>

\* after `const result = await promise`: cache.set(key, result) in the inner
\* finally fails, having written the entry or not; `await` throws its error in
\* place of the return value.
StoreSetFails(m) ==
  /\ cacheOn
  /\ IsNext("resume", m)
  /\ memo' = [memo EXCEPT ![m].pc = "rejecting", ![m].error = StoreError(m)]
  /\ cache' \in {cache, [cache EXCEPT ![memo[m].key] = memo[m].data]}
  /\ RunsJob(Append(Tail(microtasks), Job("throw", m)))
  /\ UNCHANGED <<config, promiseCache, exec, nExec, now, state, rendered,
                 runningRef, lastResolvedRef>>

NextStore ==
  \/ Next
  \/ \E m \in Execs : StoreReadFails(m)
  \/ \E m \in Execs : StoreSetFails(m)

\* createHook with a cache store (the default, or the `cache` option); the
\* hook is called without options.
InitStore == Init /\ cacheOn /\ hookOptions = [h \in Hooks |-> NoOpts]

\* The hook with a cache store whose operations may throw.
SpecStore == InitStore /\ [][NextStore]_vars

\* The error is the one a cache store operation threw.
IsStoreError(error) == error[1] = "store"

\* C21 (store errors are task errors): when a cache store operation (has, get
\* or set) of an execution throws, the memoized promise rejects with the
\* store's error and the rejection reaches the catch callback of every
\* execution attached to it; the promise run() returned of an execution that
\* was not cancelled is rejected with the store's error, and if no newer run()
\* has begun the state's error becomes that error and the status "rejected".
C21_StoreErrorRejects ==
  [][/\ \A m \in Execs :
          (StoreReadFails(m) \/ (MemoThrows(m) /\ IsStoreError(memo[m].error)))
            => /\ memo'[m].pc = "rejected"
               /\ memo'[m].error = StoreError(m)
               /\ \A e \in Execs :
                    exec[e].memo = m
                      => \E i \in 1..Len(microtasks') : microtasks'[i] = Job("pass", e)
     /\ \A e \in Execs :
          (OnReject(e) /\ ~exec[e].aborted /\ IsStoreError(memo[exec[e].memo].error))
            => LET h == exec[e].hook
                   error == memo[exec[e].memo].error
               IN /\ exec'[e].userPromise = "rejected"
                  /\ exec'[e].reason = error
                  /\ state'[h] =
                       IF MostRecent(e)
                       THEN [state[h] EXCEPT !.error = error, !.isRejected = TRUE]
                       ELSE state[h]
     /\ \A e \in Execs :
          (/\ Finally(e) /\ ~exec[e].aborted /\ MostRecent(e)
           /\ exec[e].userPromise = "rejected" /\ IsStoreError(exec[e].reason))
            => /\ status(state'[exec[e].hook]) = "rejected"
               /\ state'[exec[e].hook].error = exec[e].reason]_vars

\* C21 witness: the cache store threw during the current execution, which was
\* not cancelled: its promise is rejected with the store's error and the state
\* carries that error.
C21_Witness ==
  \E e \in Execs :
    /\ exec[e].userPromise = "rejected"
    /\ ~exec[e].aborted
    /\ MostRecent(e)
    /\ exec[e].memo # 0
    /\ exec[e].reason = StoreError(exec[e].memo)
    /\ state[exec[e].hook].error = exec[e].reason
    /\ state[exec[e].hook].isRejected
    /\ HasJob(microtasks, e)

\* C22 (the cache only grows by set): the cache store changes only in the step
\* in which a memoized promise, its task function having resolved with a value,
\* calls cache.set(key, value): that entry is written and no other entry
\* changes; no entry is ever deleted or cleared, and run(), cancel(), a task
\* rejection and the finally callback with its rollback leave the store
\* unchanged.
C22_CacheChangesOnlyBySet ==
  [][/\ cache' # cache
          => \E m \in Execs :
               /\ MemoAfterTask(m)
               /\ memo[m].called
               /\ memo[m].data # Undefined
               /\ cache' = [cache EXCEPT ![memo[m].key] = memo[m].data]
     /\ \A k \in Keys : cache[k] # Undefined => cache'[k] # Undefined
     /\ \A h \in Hooks, key \in Keys, runOptions \in RunOptionChoices, tick \in {0, 1} :
          Run(h, key, runOptions, tick) => cache' = cache
     /\ \A h \in Hooks : Cancel(h) => cache' = cache
     /\ \A m \in Execs : (TaskRejects(m) \/ MemoThrows(m)) => cache' = cache
     /\ \A e \in Execs : Finally(e) => cache' = cache]_vars

\* C22 witness: both keys have been stored, the first entry outliving the
\* second set, and an execution was cancelled and rolled back meanwhile.
C22_Witness ==
  /\ \A k \in Keys : cache[k] # Undefined
  /\ \E e \in Execs :
       /\ exec[e].aborted
       /\ exec[e].userPromise = "rejected"
       /\ ~HasJob(microtasks, e)

\* C23 (superseded executions leave the status alone): once a newer run() of the
\* hook has begun, the then, catch and finally callbacks of an earlier-started
\* execution leave isPending, isInitial, isRejected and error unchanged; they
\* change data only in the then callback of a non-cancelled execution that
\* passes the commit rule (nothing committed yet, or the last committed
\* execution started no later), and then to that execution's value.
C23_SupersededKeepsStatus ==
  [][\A e \in Execs :
       (~MostRecent(e) /\ (OnResolve(e) \/ OnReject(e) \/ Finally(e)))
         => LET h == exec[e].hook
                last == lastResolvedRef[h]
            IN /\ state'[h].isPending = state[h].isPending
               /\ state'[h].isInitial = state[h].isInitial
               /\ state'[h].isRejected = state[h].isRejected
               /\ state'[h].error = state[h].error
               /\ state'[h].data # state[h].data
                    => /\ OnResolve(e)
                       /\ ~exec[e].aborted
                       /\ ~last.set \/ last.startedAt <= exec[e].startedAt
                       /\ state'[h].data = memo[exec[e].memo].data]_vars

\* C23 witness: a superseded execution has resolved and committed its data
\* while the newer execution is still pending.
C23_Witness ==
  \E e \in Execs :
    LET h == exec[e].hook
    IN /\ exec[e].userPromise = "resolved"
       /\ ~MostRecent(e)
       /\ HasJob(microtasks, e)
       /\ lastResolvedRef[h].symbol = e
       /\ state[h].data = exec[e].result.data
       /\ state[h].isPending
       /\ runningRef[h] # 0
       /\ Pending(runningRef[h])

\* C24 (the cached flag): the result a run() resolves with has cached = true
\* exactly when its memoized promise read the value from the cache store and
\* did not invoke the task function: then the cache held the key and the data
\* is a stored value, otherwise the data is the value the invocation produced;
\* all executions that share one memoized promise resolve with the same data
\* and the same cached flag.
C24_CachedFlag ==
  [][\A e \in Execs :
       Resolves(e)
         => LET m == exec[e].memo
                r == exec'[e].result
            IN /\ r.cached = ~memo[m].called
               /\ r.cached => (memo[m].has /\ ~memo[m].ignoreCache /\ r.data # Undefined)
               /\ ~r.cached => r.data = m
               /\ \A c \in Execs :
                    (exec'[c].memo = m /\ exec'[c].userPromise = "resolved")
                      => (exec'[c].result.cached = r.cached
                          /\ exec'[c].result.data = r.data)]_vars

\* C24 witness: two executions share a memoized promise that read the cache,
\* and both have resolved with cached = true and the same data.
C24_Witness ==
  \E a \in Execs, b \in Execs :
    /\ a < b
    /\ exec[a].memo = a
    /\ exec[b].memo = a
    /\ exec[a].userPromise = "resolved"
    /\ exec[b].userPromise = "resolved"
    /\ exec[a].result.cached
    /\ exec[b].result.cached
    /\ exec[a].result.data = exec[b].result.data
    /\ ~memo[a].called

\* ---------------------------------------------------------------- unmount
UnmountHookOptionChoices == {NoOpts, [cancelOnUnmount |-> TRUE]}
UnmountRunOptionChoices ==
  {NoOpts, [cancelOnUnmount |-> TRUE], [cancelOnUnmount |-> FALSE]}

\* The hook is given cancelOnUnmount or nothing; the memoizer has no cache.
InitUnmount ==
  /\ abortable \in BOOLEAN
  /\ cacheOn = FALSE
  /\ hookOptions \in [Hooks -> UnmountHookOptionChoices]
  /\ cache = [k \in Keys |-> Undefined]
  /\ promiseCache = [k \in Keys |-> 0]
  /\ memo = [m \in Execs |-> NoMemo]
  /\ exec = [e \in Execs |-> NoExec]
  /\ nExec = 0
  /\ now = 0
  /\ state = [h \in Hooks |-> InitialState]
  /\ rendered = [h \in Hooks |-> InitialState]
  /\ runningRef = [h \in Hooks |-> 0]
  /\ lastResolvedRef = [h \in Hooks |-> NoLastResolved]
  /\ microtasks = <<>>
  /\ draining = FALSE
  /\ mounted = [h \in Hooks |-> TRUE]

\* CancelsOnUnmount without the test of the option.
CancelsOnUnmountAlways(h) == runningRef[h] # 0
\* if (runningRef.current?.runOptions.cancelOnUnmount)
CancelsOnUnmount(h) ==
  runningRef[h] # 0 /\ exec[runningRef[h]].runOptions.cancelOnUnmount

\* The component unmounts: React runs the cleanup of the effect, which calls
\* cancel() under the test above.
Unmount(h) ==
  /\ mounted[h]
  /\ mounted' = [mounted EXCEPT ![h] = FALSE]
  /\ IF CancelsOnUnmount(h)
     THEN Cancelled(h)
     ELSE InTask /\ UNCHANGED <<cache, promiseCache, memo, exec, nExec, now, state,
                                 rendered, runningRef, lastResolvedRef, microtasks>>
  /\ UNCHANGED <<abortable, cacheOn, hookOptions>>

\* The operations of a hook whose component may unmount: run(), cancel() and
\* renders happen while it is mounted, the callbacks of its executions run on.
NextUnmount ==
  \/ \E h \in Hooks, key \in Keys, runOptions \in UnmountRunOptionChoices, tick \in {0, 1} :
       mounted[h] /\ RunInputs(key, tick) /\ Run(h, key, runOptions, tick)
  \/ \E h \in Hooks : mounted[h] /\ Cancel(h)
  \/ \E h \in Hooks : Unmount(h)
  \/ \E m \in Execs : TaskResolves(m)
  \/ \E m \in Execs : MemoAfterTask(m)
  \/ \E m \in Execs : TaskRejects(m)
  \/ \E m \in Execs : MemoThrows(m)
  \/ \E e \in Execs : OnResolve(e)
  \/ \E e \in Execs : ThenPasses(e)
  \/ \E e \in Execs : OnReject(e)
  \/ \E e \in Execs : Finally(e)
  \/ \E h \in Hooks : mounted[h] /\ Render(h)

SpecUnmount == InitUnmount /\ [][NextUnmount]_vars

\* C25 (cancel on unmount): when the component unmounts, cancel() runs if and
\* only if there is a current execution whose merged run options have
\* cancelOnUnmount = true: then that execution is aborted and the record of
\* its key removed; otherwise, as with the default cancelOnUnmount = false,
\* nothing is aborted, no record is removed and no job is queued.
C25_CancelOnUnmount ==
  [][/\ \A h \in Hooks :
          (mounted[h] /\ ~mounted'[h])
            => LET e == runningRef[h]
                   cancels == e # 0 /\ exec[e].runOptions.cancelOnUnmount
               IN /\ cancels
                       => /\ Cancelled(h)
                          /\ exec'[e].aborted
                          /\ promiseCache'[exec[e].hash] = 0
                  /\ ~cancels
                       => /\ exec' = exec
                          /\ promiseCache' = promiseCache
                          /\ memo' = memo
                          /\ microtasks' = microtasks
     /\ \A h \in Hooks, key \in Keys, runOptions \in UnmountRunOptionChoices,
           tick \in {0, 1} :
          Run(h, key, runOptions, tick)
            => exec'[nExec + 1].runOptions.cancelOnUnmount
                 = Layered(hookOptions[h], runOptions).cancelOnUnmount]_vars

\* C25 witness: the component has unmounted while an execution started with
\* run.withOpts({cancelOnUnmount: true}) was pending: the execution is aborted
\* and its record is gone.
C25_Witness ==
  \E h \in Hooks :
    LET e == runningRef[h]
    IN /\ ~mounted[h]
       /\ hookOptions[h] = NoOpts
       /\ e # 0
       /\ exec[e].runOptions.cancelOnUnmount
       /\ exec[e].aborted
       /\ exec[e].memo = e
       /\ promiseCache[exec[e].hash] = 0

Statuses == {"initial", "pending", "resolved", "rejected"}

\* What the hook returns for the flags s is consistent.
StatusConsistent(s) ==
  /\ Cardinality({x \in Statuses : status(s) = x}) = 1
  /\ isSettled(s) <=> status(s) \in {"resolved", "rejected"}
  /\ isResolved(s) <=> status(s) = "resolved"

\* C27 (status is well formed): in every reachable state, for the state of each
\* hook and for the state of its last render, exactly one of the statuses
\* initial, pending, resolved, rejected holds, isSettled is true exactly when
\* the status is resolved or rejected, and isResolved exactly when it is
\* resolved.
C27_StatusWellFormed ==
  \A h \in Hooks : StatusConsistent(state[h]) /\ StatusConsistent(rendered[h])

\* C27 witness: the catch callback of the current execution has set isRejected
\* while isPending is still set: the status is "pending" and not settled.
C27_Witness ==
  \E h \in Hooks :
    /\ state[h].isPending
    /\ state[h].isRejected
    /\ status(state[h]) = "pending"
    /\ ~isSettled(state[h])

\* C28 (a record is removed by its owner only): the record of memoized promise m
\* leaves the registry empty for its key only in the step in which m itself
\* settles or in a cancel() of an execution that runs on m; the settlement or
\* the cancel() of another execution never removes it.
C28_RecordRemovedByOwnerOnly ==
  [][\A k \in Keys :
       LET m == promiseCache[k]
       IN (m # 0 /\ promiseCache'[k] = 0)
            => \/ MemoAfterGet(m) \/ MemoAfterTask(m) \/ MemoAfterSet(m)
               \/ MemoThrows(m)
               \/ \E h \in Hooks :
                    Cancel(h) /\ exec[runningRef[h]].memo = m]_vars

\* C29 (ties commit): when a non-cancelled execution resolves and the last
\* committed execution has the same start time, it commits: data becomes its
\* value and it becomes the last committed execution; of two executions with
\* equal start times the one that settles last leaves its value as data.
C29_TieCommits ==
  [][\A e \in Execs :
       LET h == exec[e].hook
           last == lastResolvedRef[h]
       IN (Resolves(e) /\ last.set /\ last.startedAt = exec[e].startedAt)
            => /\ state'[h].data = memo[exec[e].memo].data
               /\ lastResolvedRef'[h].symbol = e
               /\ lastResolvedRef'[h].startedAt = exec[e].startedAt]_vars

\* C29 witness: an execution with a task invocation of its own has resolved
\* after another execution with the same start time had committed: its result
\* has latest = false, and its value is the data.
C29_Witness ==
  \E e \in Execs :
    LET h == exec[e].hook
    IN /\ exec[e].userPromise = "resolved"
       /\ ~exec[e].aborted
       /\ exec[e].memo = e
       /\ ~exec[e].result.cached
       /\ ~exec[e].result.latest
       /\ lastResolvedRef[h].symbol = e
       /\ lastResolvedRef[h].startedAt = exec[e].startedAt
       /\ state[h].data = exec[e].result.data

\* C30 (pending ends): provided every invocation of the task function settles,
\* a pending status becomes non-pending, whatever run() and cancel() calls were
\* made: whenever the status of a hook is "pending", a job is still to run or
\* an invocation of the task function has not settled yet.
C30_PendingEnds ==
  \A h \in Hooks :
    status(state[h]) = "pending"
      => (microtasks # <<>> \/ \E m \in Execs : memo[m].pc = "task")

\* C31 (the cache keeps the latest-started value): an execution that resolves
\* never overwrites the cache entry written by a later-started execution for
\* its key, so that the entry ends as the value of the latest-started resolved
\* execution. (The value of an invocation is its number in start order;
\* neither execution was cancelled.)
C31_CacheKeepsLatestStarted ==
  [][\A m \in Execs :
       LET stored == cache[memo[m].key]
       IN (/\ MemoAfterTask(m) /\ cacheOn /\ ~exec[m].aborted
           /\ stored # Undefined /\ ~exec[stored].aborted)
            => stored <= memo[m].data]_vars

\* C32 (commit if and only if latest): when a non-cancelled execution resolves,
\* it commits (its value becomes Controller data and it becomes the last
\* committed execution) if and only if its returned future resolves with
\* latest = true.
C32_CommitIffLatest ==
  [][\A e \in Execs :
       LET h == exec[e].hook
       IN Resolves(e)
            => ((/\ lastResolvedRef'[h].symbol = e
                 /\ state'[h].data = DataOf(e))
                <=> exec'[e].result.latest)]_vars

\* C33 (isPending follows the handle): in every state isPending is true exactly
\* when runningRef holds an execution; the handle is cleared only by the finally
\* reaction of the current execution, whose returned future has settled, and
\* while the handle holds an execution whose future has settled, that
\* reaction is queued.
C33_PendingIffHandle ==
  /\ [](\A h \in Hooks :
          /\ state[h].isPending <=> runningRef[h] # 0
          /\ (runningRef[h] # 0 /\ exec[runningRef[h]].userPromise # "pending")
               => HasJob(microtasks, runningRef[h]))
  /\ [][\A h \in Hooks :
          (runningRef[h] # 0 /\ runningRef'[h] = 0)
            => /\ Finally(runningRef[h])
               /\ exec[runningRef[h]].userPromise \in {"resolved", "rejected"}
               /\ ~state'[h].isPending]_vars

\* C33 witness: the most recently started execution has resolved and its finally
\* reaction has cleared the handle and isPending.
C33_Witness ==
  \E e \in Execs :
    LET h == exec[e].hook
    IN /\ MostRecent(e) /\ nExec = e
       /\ exec[e].userPromise = "resolved"
       /\ ~HasJob(microtasks, e)
       /\ runningRef[h] = 0
       /\ ~state[h].isPending

C35_InitialHasNoData ==
  \A h \in Hooks :
    (microtasks = <<>> /\ status(state[h]) = "initial")
      => state[h].data = Undefined

\* The pending phase of a current execution started with keepPreviousData =
\* false: the handle holds it, it is neither settled nor cancelled, and the
\* data run() cleared is still undefined.
ClearedPhase(h) ==
  LET c == runningRef[h]
  IN /\ c # 0
     /\ ~exec[c].runOptions.keepPreviousData
     /\ ~exec[c].aborted
     /\ exec[c].userPromise = "pending"
     /\ state[h].isPending
     /\ state[h].data = Undefined

\* C36 as stated (data stays undefined while pending): during the pending phase
\* of a current execution started with keepPreviousData = false, data stays
\* undefined in every step but the resolution of that execution; the
\* resolution of an older, superseded execution does not set it.
C36_DataUndefinedWhilePending ==
  [][\A h \in Hooks :
       (ClearedPhase(h) /\ ~Resolves(runningRef[h]))
         => state'[h].data = Undefined]_vars

\* C36 amended: during that pending phase data is set only by the resolution of
\* an execution that commits under the start-order rule, the current one or a
\* superseded one; a superseded execution that resolves then makes its value
\* the data exactly when no execution with a later start time has committed.
C36_DataSetByCommitOnly ==
  [][\A h \in Hooks :
       ClearedPhase(h)
         => /\ state'[h].data # Undefined
                 => \E e \in Execs :
                      /\ exec[e].hook = h
                      /\ Resolves(e)
                      /\ \/ ~lastResolvedRef[h].set
                         \/ lastResolvedRef[h].startedAt <= exec[e].startedAt
                      /\ state'[h].data = DataOf(e)
            /\ \A e \in Execs :
                 (exec[e].hook = h /\ e # runningRef[h] /\ Resolves(e))
                   => /\ state'[h].isPending
                      /\ state'[h].data =
                           IF \/ ~lastResolvedRef[h].set
                              \/ lastResolvedRef[h].startedAt <= exec[e].startedAt
                           THEN DataOf(e) ELSE Undefined]_vars

\* C36 witness: the current execution, started with keepPreviousData = false, is
\* pending and not cancelled, and the data is the value of an older execution
\* that has resolved in the meantime.
C36_Witness ==
  \E h \in Hooks : \E e \in Execs :
    LET c == runningRef[h]
    IN /\ c # 0 /\ e < c
       /\ exec[e].hook = h
       /\ ~exec[c].runOptions.keepPreviousData
       /\ ~exec[c].aborted /\ exec[c].userPromise = "pending"
       /\ state[h].isPending
       /\ exec[e].userPromise = "resolved"
       /\ lastResolvedRef[h].symbol = e
       /\ state[h].data = exec[e].result.data
       /\ state[h].data # Undefined

\* A later-started execution of the hook of e has been cancelled.
LaterCancelled(e) ==
  \E c \in Execs : c > e /\ exec[c].hook = exec[e].hook /\ exec[c].aborted

\* C37 (cancel reaches the most recent execution only): cancel() acts only when
\* the hook has a current execution, which is the most recently started one; it
\* leaves every other execution as it is (not aborted, future unsettled) and
\* the memoized promise of every earlier execution untouched; and an earlier
\* execution, after a later one of its hook was
\* cancelled, settles its future with its own task's outcome and commits its
\* data when it passes the start-order test.
C37_CancelMostRecentOnly ==
  [][/\ \A h \in Hooks :
          Cancel(h)
            => LET c == runningRef[h]
               IN /\ c # 0 /\ MostRecent(c)
                  /\ exec'[c].aborted
                  /\ \A e \in Execs \ {c} : exec'[e] = exec[e]
                  /\ \A e \in Execs :
                       (e < c /\ exec[e].memo # 0)
                         => memo'[exec[e].memo] = memo[exec[e].memo]
     /\ \A e \in Execs :
          LET h == exec[e].hook
              last == lastResolvedRef[h]
          IN /\ (Resolves(e) /\ LaterCancelled(e))
                  => /\ exec'[e].userPromise = "resolved"
                     /\ exec'[e].result.data = DataOf(e)
                     /\ (~last.set \/ last.startedAt <= exec[e].startedAt)
                          => state'[h].data = DataOf(e)
             /\ (OnReject(e) /\ ~exec[e].aborted /\ LaterCancelled(e))
                  => /\ exec'[e].userPromise = "rejected"
                     /\ exec'[e].reason = memo[exec[e].memo].error]_vars

\* C37 witness: the most recent execution was cancelled, and an earlier one that
\* was in flight has since resolved with the value of its own task and
\* committed it.
C37_Witness ==
  \E e \in Execs : \E c \in Execs :
    LET h == exec[e].hook
    IN /\ e < c /\ exec[c].hook = h
       /\ exec[c].aborted /\ ~exec[e].aborted
       /\ exec[e].userPromise = "resolved"
       /\ exec[e].memo = e
       /\ exec[e].result.data = e
       /\ lastResolvedRef[h].symbol = e
       /\ state[h].data = e

\* C38 (a cancelled execution's late settlement is inert): when the task is not
\* abortable and execution e was cancelled, the reactions of e to the later
\* settlement of its task, resolved or rejected, leave data, error, the status
\* flags and the last committed execution as they are, and the returned future
\* stays rejected, with no further reaction queued for it.
C38_LateSettlementInert ==
  [][\A e \in Execs :
       (/\ ~abortable /\ exec[e].aborted
        /\ OnResolve(e) \/ ThenPasses(e) \/ OnReject(e))
         => /\ state' = state
            /\ lastResolvedRef' = lastResolvedRef
            /\ runningRef' = runningRef
            /\ exec[e].userPromise = "rejected"
            /\ exec'[e].userPromise = "rejected"
            /\ ~HasJob(microtasks', e) \/ ThenPasses(e)]_vars

\* C38 witness: a cancelled execution of a non-abortable task whose task resolved
\* afterwards (its value is in the cache) and whose reaction has run: its
\* future is rejected and the data is not its value.
C38_Witness ==
  \E e \in Execs :
    /\ ~abortable
    /\ exec[e].aborted
    /\ exec[e].userPromise = "rejected"
    /\ exec[e].memo = 0
    /\ microtasks = <<>>
    /\ \E k \in Keys : cache[k] = e
    /\ state[exec[e].hook].data # e

\* C39 (the last committed start time never decreases): once an execution has
\* committed, lastResolvedRef stays set and its startedAt never decreases; only
\* the resolution of a non-cancelled execution changes lastResolvedRef, a
\* cancel and a finally reaction (with or without rollback) never do.
C39_LastStartNeverDecreases ==
  [][\A h \in Hooks :
       /\ lastResolvedRef[h].set
            => /\ lastResolvedRef'[h].set
               /\ lastResolvedRef'[h].startedAt >= lastResolvedRef[h].startedAt
       /\ lastResolvedRef'[h] # lastResolvedRef[h]
            => \E e \in Execs : exec[e].hook = h /\ Resolves(e)
       /\ (Cancel(h) \/ \E e \in Execs : Finally(e))
            => lastResolvedRef'[h] = lastResolvedRef[h]]_vars

\* C39 witness: after an execution started at a later time committed, a later
\* execution was cancelled and rolled back and an execution started earlier
\* has resolved: lastResolvedRef still holds the later commit.
C39_Witness ==
  \E h \in Hooks : \E c \in Execs : \E a \in Execs :
    LET last == lastResolvedRef[h]
    IN /\ last.set /\ last.startedAt > 0
       /\ exec[c].hook = h /\ exec[c].aborted /\ c > last.symbol
       /\ runningRef[h] = 0
       /\ exec[a].hook = h /\ a < last.symbol
       /\ exec[a].userPromise = "resolved" /\ ~exec[a].aborted

====
